---- MODULE Spec2Model ----
(***************************************************************************)
(* Download task orchestrator of ytb_dual_subtitles                        *)
(* (core/download_manager.py, database/task_dao.py, api/routes/            *)
(* downloads.py, services/youtube_service.py).                             *)
(*                                                                         *)
(* The download_tasks table is the persisted state.  The DownloadManager   *)
(* of the running process holds the semaphore, the _running_tasks registry *)
(* and one asyncio task per started download.  The process is a single     *)
(* asyncio event loop: a coroutine runs without interruption from one      *)
(* suspending await to the next, so each action below is the code between  *)
(* two suspension points.  get_video_info is declared async but contains   *)
(* no await (youtube_service.py 246-284): awaiting it never suspends.      *)
(***************************************************************************)
EXTENDS Integers, Sequences, FiniteSets, TLC

\* ---------------------------------------------------------------- bounds
MaxTasks == 2           \* rows of download_tasks while one process runs
RestartTasks == 1       \* rows of download_tasks when processes may crash
MaxRestarts == 1        \* process crashes in one behaviour
MaxCancelCalls == 1     \* cancel_task calls awaiting the same running task
MaxExecutions == 2      \* unfinished asyncio tasks of one row
AdminTasks == 1         \* rows of download_tasks when hanging tasks are reset
MaxTime == 5            \* latest time of an aligned segment, in units of 100 ms
MaxSegments == 2        \* segments of one subtitle track
MaxBlocks == 2          \* blocks of one .vtt file
MaxTenths == 2          \* largest seconds field of a .vtt timestamp, in 100 ms
MaxSyncTime == 12       \* latest time of a segment given to sync_timeline

\* ------------------------------------------------------ program constants
max_concurrent == 1     \* DownloadManager.max_concurrent (settings allow 1..10)
max_retries == 2        \* DownloadManager.max_retries (settings default)
sync_tolerance == 1     \* SubtitleGenerator.sync_tolerance: 0.1 s, in 100 ms
min_duration == 10      \* sync_timeline: start_time + 1.0, in 100 ms
minute == 600           \* _timestamp_to_seconds: minutes * 60, in 100 ms

None == "None"

TaskIds == 1..MaxTasks

\* A submitted url: the video it denotes, and whether the string carries
\* surrounding whitespace (validate_youtube_url strips before matching, so
\* a padded url is accepted by the route).
Urls ==
    { [vid |-> "a", pad |-> FALSE],
      [vid |-> "a", pad |-> TRUE],
      [vid |-> "b", pad |-> FALSE] }

\* str.strip()
strip(url) == [url EXCEPT !.pad = FALSE]

\* YouTubeService.extract_video_id: strips, then matches the id
extract_video_id(url) == url.vid

\* YouTubeService.generate_filename_from_url: watch_v_<id>.mp4
generate_filename_from_url(url) == url.vid

\* title that get_video_info resolves for a video id; the videos "a" and
\* "c" carry the same title
video_title(vid) == IF vid \in {"a", "c"} THEN "Title A" ELSE "Title B"

\* outcomes of the identity lookup get_video_info
LookupOutcomes == {"info", "VideoNotFoundError"}

\* what yt-dlp reports for one media fetch
FetchConditions == {"ok", "unavailable", "network", "timeout"}
TransientConditions == {"network", "timeout"}

ActiveStatuses == {"pending", "downloading"}
TerminalStatuses == {"completed", "error", "failed", "cancelled"}

\* ------------------------------------------------------------ DownloadTask

\* DownloadTask.__init__ and _download_task_to_data (file_path is not part
\* of the data written, so the column stays NULL)
DownloadTask(url) ==
    [ url |-> url, title |-> None, status |-> "pending", progress |-> 0,
      error_message |-> None, status_message |-> "", retry_count |-> 0,
      file_path |-> None, started_at |-> FALSE, completed_at |-> FALSE ]

\* A set_error that records the message and leaves the status
set_error_keeps_status(task, error_message) ==
    [task EXCEPT !.error_message = error_message]

\* DownloadTask.set_error
set_error(task, error_message) ==
    [task EXCEPT !.status = "error", !.error_message = error_message]

\* ----------------------------------------------------------------- TaskDAO

\* TaskDAO.create_task: INSERT; the new row is the latest by created_at
dao_create_task(tasks, task_data) == Append(tasks, task_data)

\* TaskDAO.update_task: patch the named fields of one row
update_task(tasks, task_id, updates) ==
    IF task_id \in DOMAIN tasks
      THEN [tasks EXCEPT ![task_id] =
              [f \in DOMAIN tasks[task_id] |->
                 IF f \in DOMAIN updates THEN updates[f] ELSE tasks[task_id][f]]]
      ELSE tasks

Latest(ids) == IF ids = {} THEN 0 ELSE CHOOSE i \in ids : \A j \in ids : j <= i

\* TaskDAO.get_active_task_by_url: latest row with this url in an active
\* status; 0 stands for None
get_active_task_by_url(tasks, url) ==
    Latest({ i \in DOMAIN tasks :
               /\ tasks[i].url = url
               /\ tasks[i].status \in {"pending", "downloading", "processing"} })

\* A lookup by title that finds nothing
get_completed_task_by_title_none(tasks, title) == 0

\* TaskDAO.get_completed_task_by_title
get_completed_task_by_title(tasks, title) ==
    IF title = "" THEN 0
    ELSE Latest({ i \in DOMAIN tasks :
                    tasks[i].title = title /\ tasks[i].status = "completed" })

\* TaskDAO.get_tasks_by_status
get_tasks_by_status(tasks, status) ==
    { i \in DOMAIN tasks : tasks[i].status = status }

\* --------------------------------------------------------- DownloadManager

\* A restore that resets every row, whatever its status
restore_every_task(task) ==
    [task EXCEPT !.status = "pending",
                 !.status_message = "Restored after service restart"]

\* A restore that gives the task its retries back
restore_with_fresh_retries(task) ==
    IF task.status = "downloading"
      THEN [task EXCEPT !.status = "pending", !.retry_count = 0,
                        !.status_message = "Restored after service restart"]
      ELSE task

\* DownloadManager._restore_active_tasks: applied to every row
restore_active_task(task) ==
    IF task.status = "downloading"
      THEN [task EXCEPT !.status = "pending",
                        !.status_message = "Restored after service restart"]
      ELSE task

\* A check of the output file that finds nothing
no_existing_file_info(files, filename) == FALSE

\* StorageService.get_existing_file_info: the file is on disk
get_existing_file_info(files, filename) == filename \in files

\* DownloadManager.create_task: the table after the call, the task returned
\* and its status.  lookup is the outcome of get_video_info, files the
\* video ids whose output file exists on disk.
create_task(tasks, files, url, lookup) ==
    LET normalized_url == strip(url)
        existing == get_active_task_by_url(tasks, normalized_url)
        title == video_title(extract_video_id(url))
        by_title == get_completed_task_by_title(tasks, title)
        new_id == Len(tasks) + 1
        errored == set_error(DownloadTask(url), "Failed to get video info")
        synthesized == [DownloadTask(url) EXCEPT
                          !.status = "completed", !.progress = 100,
                          !.status_message = "File already exists",
                          !.completed_at = TRUE, !.title = title]
        fresh == [DownloadTask(url) EXCEPT !.title = title]
    IN  IF existing # 0
          THEN [tasks |-> tasks, task_id |-> existing,
                status |-> tasks[existing].status]
        ELSE IF lookup # "info"
          THEN [tasks |-> dao_create_task(tasks, errored), task_id |-> new_id,
                status |-> errored.status]
        ELSE IF by_title # 0
          THEN [tasks |-> tasks, task_id |-> by_title,
                status |-> tasks[by_title].status]
        ELSE IF get_existing_file_info(files, generate_filename_from_url(url))
          THEN [tasks |-> dao_create_task(tasks, synthesized), task_id |-> new_id,
                status |-> synthesized.status]
        ELSE [tasks |-> dao_create_task(tasks, fresh), task_id |-> new_id,
              status |-> fresh.status]

\* A start_task that checks only that the task exists
startable_whatever_status(tasks, task_id) == task_id \in DOMAIN tasks

\* DownloadManager.start_task: the status test
startable(tasks, task_id) ==
    task_id \in DOMAIN tasks /\ tasks[task_id].status \in {"pending"}

\* A status test that lets a finished task be cancelled
cancellable_whatever_status(tasks, task_id) == task_id \in DOMAIN tasks

\* DownloadManager.cancel_task: the status test
cancellable(tasks, task_id) ==
    task_id \in DOMAIN tasks /\ tasks[task_id].status \in {"pending", "downloading"}


\* A classification that knows no permanent error
is_non_retryable_never(e) == FALSE

\* DownloadManager._is_non_retryable_error: isinstance(e, VideoNotFoundError)
is_non_retryable_error(e) == e = "VideoNotFoundError"

\* YouTubeService.download_video, lines 554-573: what the await produces for
\* each condition yt-dlp reports.  Every exception leaving the executor is
\* re-raised as VideoNotFoundError.
download_video(cond) ==
    IF cond = "ok" THEN "return" ELSE "VideoNotFoundError"

\* A backoff that starts at 2 seconds
wait_time_doubled(retry_count) == 2 ^ retry_count

\* _download_task line 379: seconds slept before the next attempt
wait_time(retry_count) == 2 ^ (retry_count - 1)

\* _download_task line 366: no retry is left
retries_exhausted(retry_count) == retry_count >= max_retries

\* A clean-up that leaves the registry entry where it is
del_nothing(registry, task_id) == registry

\* `if task_id in self._running_tasks: del self._running_tasks[task_id]`
\* (lines 388-389, 454-455 and 994-995)
del_running_task(registry, task_id) == registry \ {task_id}

\* A retry loop that sleeps outside the `async with` block
exits_semaphore_to_sleep(pc) == pc \in {"done", "sleeping"}

\* _download_task lines 311-380: the whole retry loop, the backoff sleep of
\* line 380 included, is inside `async with self._semaphore`; control
\* leaves the block only when the coroutine ends
exits_semaphore(pc) == pc = "done"

\* An exit path that leaves the `async with` block without releasing
release_forgotten(value) == value

\* asyncio.Semaphore.release, at the exit of `async with self._semaphore`
release(value) == value + 1

\* An acquire that never waits
can_acquire_always(value) == TRUE

\* asyncio.Semaphore.acquire returns without waiting
can_acquire(value) == value > 0

\* Suspension points of _download_task and the coroutines it awaits.
\*   scheduled   created by asyncio.create_task, not yet run
\*   wait_sem    async with self._semaphore, no permit free
\*   fetching    download_video: await loop.run_in_executor
\*   importing   _create_video_record: inside async with get_db_session()
\*   processing  _process_dual_subtitles: inside async with get_db_session()
\*   finishing   _process_dual_subtitles: session exit after its last write
\*   sleeping    await asyncio.sleep(wait_time)
\*   done        the asyncio task has finished
\*   none        no asyncio task was created for the row in this process
\* `stale` lists the asyncio tasks of the row that start_task superseded in
\* _running_tasks while they were still suspended.
Suspended ==
    {"scheduled", "wait_sem", "fetching", "importing", "processing",
     "finishing", "sleeping"}
HoldsPermit == {"fetching", "importing", "processing", "finishing", "sleeping"}
Working == {"fetching", "importing", "processing", "finishing"}

NoPipeline ==
    [pc |-> "none", retry_count |-> 0, progress |-> 0, cancel_requested |-> FALSE,
     stale |-> << >>]

\* start_task line 297: `self._running_tasks[task_id] = asyncio.create_task(..)`
\* replaces the registry entry; an asyncio task that was registered and has
\* not finished keeps running
superseded(p) ==
    IF p.pc \in Suspended
      THEN Append(p.stale, [pc |-> p.pc, retry_count |-> p.retry_count,
                            progress |-> p.progress])
      ELSE p.stale

NoHistory ==
    [attempts |-> 0, sleeps |-> <<>>, raised |-> None, cond |-> None,
     retry_at_raise |-> 0, interrupted_at |-> None, start_retry |-> 0,
     lookups |-> 0]

VARIABLES
    download_tasks,   \* the download_tasks table, in created_at order
    files,            \* video ids whose output file exists on disk
    constructed,      \* the DownloadManager singleton of the process exists
    semaphore,        \* DownloadManager._semaphore: free permits
    running_tasks,    \* keys of DownloadManager._running_tasks
    pipeline,         \* per task: the asyncio task running _download_task
    cancel_calls,     \* per task: cancel_task calls at `await running_task`
    restarts,         \* process crashes so far
    history,          \* per task: what its current execution has done
    response,         \* what the start_task or cancel_task call that just
                      \* ended returned or raised
    vtt_file,         \* the blocks of a .vtt file that yt-dlp wrote
    subtitle_segments,\* rows of subtitle_segments stored for that file
    reference_track,  \* the track whose segments the aligner iterates over
    other_track,      \* the track the counterparts are taken from
    bilingual         \* the aligner that ran and the segments it produced

manager_vars ==
    << download_tasks, files, constructed, semaphore, running_tasks, pipeline,
       cancel_calls, restarts, history, response >>

subtitle_vars ==
    << vtt_file, subtitle_segments, reference_track, other_track, bilingual >>

vars == << manager_vars, subtitle_vars >>

\* ------------------------------------------- one execution of _download_task
\* An execution state x is [row, pc, retry_count, progress, h]: the task's
\* row, the suspension point, the in-memory DownloadTask.retry_count and
\* .progress, and the history of the execution.

patch(row, updates) ==
    [f \in DOMAIN row |-> IF f \in DOMAIN updates THEN updates[f] ELSE row[f]]

\* _complete_task(task, success=False) after task.set_error(str(e)),
\* lines 437-455: nothing is awaited, the task ends
complete_task_failure(x, e) ==
    [x EXCEPT !.row = patch(x.row,
                 [status |-> "error", progress |-> x.progress,
                  completed_at |-> TRUE, error_message |-> e,
                  status_message |-> e]),
              !.pc = "done"]

\* A success write that persists the progress the task was loaded with
complete_task_success_as_loaded(x) ==
    [x EXCEPT !.row = patch(x.row,
                 [status |-> "completed", progress |-> x.progress,
                  completed_at |-> TRUE, error_message |-> None,
                  status_message |-> "Download complete"]),
              !.pc = "done"]

\* _complete_task(task, success=True), lines 434-455
complete_task_success(x) ==
    [x EXCEPT !.row = patch(x.row,
                 [status |-> "completed", progress |-> 100,
                  completed_at |-> TRUE, error_message |-> None,
                  status_message |-> "Download complete"]),
              !.pc = "done"]

\* _download_task lines 358-380: the handler of `except Exception as e`
on_exception(x, e) ==
    LET seen == [x EXCEPT !.h.raised = e, !.h.retry_at_raise = x.retry_count]
    IN  IF is_non_retryable_error(e) THEN complete_task_failure(seen, e)
        ELSE IF retries_exhausted(x.retry_count) THEN complete_task_failure(seen, e)
        ELSE [seen EXCEPT
                !.retry_count = x.retry_count + 1,
                !.row = patch(x.row, [retry_count |-> x.retry_count + 1,
                                      status_message |-> "Retrying"]),
                !.h.sleeps = Append(x.h.sleeps, wait_time(x.retry_count + 1)),
                !.pc = "sleeping"]

\* A handler that swallows CancelledError and stays where it was
on_cancelled_swallowed(x) == x

\* CancelledError handled by `except Exception`, as any other error
on_cancelled_as_error(x) ==
    complete_task_failure(x, "CancelledError")

\* _download_task lines 354-356 and 382-384: CancelledError ends the
\* execution and writes nothing
on_cancelled(x) == [x EXCEPT !.pc = "done"]

\* A retry loop that has the title lookup inside it
begin_attempt_refetching(x, pre) ==
    LET counted == [x EXCEPT !.h.attempts = x.h.attempts + 1,
                             !.h.lookups = IF x.h.attempts > 0
                                             THEN x.h.lookups + 1
                                             ELSE x.h.lookups]
    IN  IF pre = "ok"
          THEN [counted EXCEPT
                  !.row = patch(x.row, [status_message |-> "Downloading video",
                                        progress |-> 10]),
                  !.pc = "fetching"]
          ELSE on_exception(counted, pre)

\* _download_task lines 329-339: one pass of the retry loop up to the await
\* in download_video.  pre is "ok", or the exception raised by the store
\* while the progress is written (sqlite3.OperationalError).
begin_attempt(x, pre) ==
    LET counted == [x EXCEPT !.h.attempts = x.h.attempts + 1]
    IN  IF pre = "ok"
          THEN [counted EXCEPT
                  !.row = patch(x.row, [status_message |-> "Downloading video",
                                        progress |-> 10]),
                  !.pc = "fetching"]
          ELSE on_exception(counted, pre)

\* _download_task lines 313-326: the title is fetched and written; a failed
\* lookup is printed and ignored
fetch_title(x, info) ==
    LET looked_up == [x EXCEPT !.h.lookups = x.h.lookups + 1]
    IN  IF info = "info"
          THEN [looked_up EXCEPT !.row = patch(x.row,
                  [title |-> video_title(extract_video_id(x.row.url)),
                   status_message |-> "Downloading", progress |-> 0])]
          ELSE looked_up

\* _download_task lines 339-351 with _complete_task lines 413-422 and
\* _create_video_record lines 466-482: the await of download_video ends.
\* info is the outcome of the lookup in _create_video_record; when it
\* fails the record is not created and the task completes at once.
after_fetch(x, cond, info) ==
    LET seen == [x EXCEPT !.h.cond = cond]
        imported == [seen EXCEPT
                       !.row = patch(x.row, [status_message |-> "Importing subtitles",
                                             progress |-> 70])]
    IN  IF download_video(cond) # "return"
          THEN on_exception(seen, download_video(cond))
        ELSE IF info = "info" THEN [imported EXCEPT !.pc = "importing"]
        ELSE complete_task_success(imported)

\* _create_video_record lines 482-533 and _complete_task lines 424-432: the
\* record exists (video_id) or creating it failed (None)
after_import(x, video_id) ==
    IF video_id # None
      THEN [x EXCEPT
              !.row = patch(x.row,
                 [title |-> video_title(extract_video_id(x.row.url)),
                  status_message |-> "Generating dual subtitles", progress |-> 80]),
              !.pc = "processing"]
      ELSE complete_task_success(x)

\* _process_dual_subtitles lines 729-842: what it finds, and the last row
\* update it makes before the database session is left
ProcessOutcomes ==
    {"no_video", "missing_language", "mux_failed", "embedded", "no_output",
     "exception"}

after_process(x, outcome) ==
    LET last ==
          CASE outcome = "no_video" -> << >>
            [] outcome = "missing_language" ->
                 [status_message |-> "Missing required subtitle languages",
                  progress |-> 100]
            [] outcome = "mux_failed" ->
                 [status_message |-> "FFmpeg embedding failed", progress |-> 100]
            [] outcome = "embedded" ->
                 [status_message |-> "Dual subtitles done", progress |-> 100]
            [] outcome = "no_output" ->
                 [status_message |-> "Embedding subtitles", progress |-> 90]
            [] outcome = "exception" ->
                 [status_message |-> "Dual subtitle processing failed",
                  progress |-> 100]
    IN  [x EXCEPT !.row = patch(x.row, last), !.pc = "finishing"]


\* The aligner has not run
NotAligned == [aligner |-> None, segments |-> << >>]

\* ------------------------------------------------------------------ state

\* The manager after construction over an empty table
ManagerInit ==
    /\ download_tasks = << >>
    /\ files = {}
    /\ constructed = TRUE
    /\ semaphore = max_concurrent
    /\ running_tasks = {}
    /\ pipeline = [t \in TaskIds |-> NoPipeline]
    /\ cancel_calls = [t \in TaskIds |-> 0]
    /\ restarts = 0
    /\ history = [t \in TaskIds |-> NoHistory]
    /\ response = None

Init ==
    /\ ManagerInit
    /\ vtt_file = << >>
    /\ subtitle_segments = << >>
    /\ reference_track = << >>
    /\ other_track = << >>
    /\ bilingual = NotAligned

Execution(t) ==
    [ row |-> download_tasks[t], pc |-> pipeline[t].pc,
      retry_count |-> pipeline[t].retry_count,
      progress |-> pipeline[t].progress, h |-> history[t] ]

\* The execution of task t has moved to x.  permits is the semaphore value
\* while it ran; when it ends inside `async with self._semaphore` the permit
\* is released, and `finally` (lines 386-389) drops the registry entry.
Commit(t, x, permits) ==
    /\ download_tasks' = [download_tasks EXCEPT ![t] = x.row]
    /\ pipeline' = [pipeline EXCEPT ![t].pc = x.pc,
                                    ![t].retry_count = x.retry_count,
                                    ![t].progress = x.progress]
    /\ history' = [history EXCEPT ![t] = x.h]
    /\ semaphore' = IF exits_semaphore(x.pc) THEN release(permits) ELSE permits
    /\ running_tasks' = IF x.pc = "done"
                          THEN del_running_task(running_tasks, t)
                          ELSE running_tasks

\* --------------------------------------------------------- client requests

\* DownloadManager.create_task(url); cap is the number of rows the
\* specification lets the table hold
CreateTask(url, lookup, cap) ==
    LET r == create_task(download_tasks, files, url, lookup)
    IN  /\ constructed
        /\ Len(r.tasks) <= cap
        /\ download_tasks' = r.tasks
        /\ response' = None
        /\ UNCHANGED subtitle_vars
        /\ UNCHANGED << files, constructed, semaphore, running_tasks, pipeline,
                        cancel_calls, restarts, history >>

\* DownloadManager.start_task(task_id) on the table `tasks`; a task that is
\* missing or not pending raises ValueError and nothing changes
start_task(tasks, task_id) ==
    /\ startable(tasks, task_id)
    /\ pipeline[task_id].pc \in Suspended =>
          /\ Len(pipeline[task_id].stale) + 2 <= MaxExecutions
          /\ cancel_calls[task_id] = 0
    /\ download_tasks' = update_task(tasks, task_id,
                            [status |-> "downloading", started_at |-> TRUE])
    /\ pipeline' = [pipeline EXCEPT ![task_id] =
                      [pc |-> "scheduled",
                       retry_count |-> tasks[task_id].retry_count,
                       progress |-> tasks[task_id].progress,
                       cancel_requested |-> FALSE,
                       stale |-> superseded(pipeline[task_id])]]
    /\ running_tasks' = running_tasks \cup {task_id}
    /\ history' = [history EXCEPT ![task_id] =
                     [NoHistory EXCEPT !.start_retry = tasks[task_id].retry_count]]

\* start_task lines 277-281: the task is unknown or not pending
StartRefused(t) ==
    /\ constructed
    /\ ~startable(download_tasks, t)
    /\ response' = "ValueError"
    /\ UNCHANGED subtitle_vars
    /\ UNCHANGED << download_tasks, files, constructed, semaphore, running_tasks,
                    pipeline, cancel_calls, restarts, history >>

StartTask(t) ==
    /\ constructed
    /\ start_task(download_tasks, t)
    /\ response' = None
    /\ UNCHANGED subtitle_vars
    /\ UNCHANGED << files, constructed, semaphore, cancel_calls, restarts >>

\* POST /downloads (create_download_task): create_task, then start_task when
\* the task returned is pending; nothing is awaited in between
CreateDownloadTask(url, lookup, cap) ==
    LET r == create_task(download_tasks, files, url, lookup)
    IN  /\ constructed
        /\ Len(r.tasks) <= cap
        /\ IF r.status = "pending"
             THEN start_task(r.tasks, r.task_id)
             ELSE /\ download_tasks' = r.tasks
                  /\ UNCHANGED << pipeline, running_tasks, history >>
        /\ response' = None
        /\ UNCHANGED subtitle_vars
        /\ UNCHANGED << files, constructed, semaphore, cancel_calls, restarts >>

\* cancel_task lines 997-1004: the row update
cancelled_update ==
    [status |-> "cancelled", completed_at |-> TRUE,
     status_message |-> "Cancelled by user"]

\* StorageService.cleanup_temp_files(self), called with `given` arguments
\* besides self: it takes none
cleanup_temp_files(given) == IF given = 0 THEN "None" ELSE "TypeError"

\* cancel_task lines 1004-1014 after the row update: `success` is what
\* update_task returned; StorageService has cleanup_temp_files, a coroutine
\* function, and it is called as cleanup_func(task_id)
cancel_task_return(success) ==
    IF cleanup_temp_files(1) = "TypeError"
      THEN "TypeError"
      ELSE IF success THEN "True" ELSE "False"

\* A cancel_task that does not wait for the asyncio task
awaited_at_once(pc) == TRUE

\* cancel_task line 989: `await running_task` returns once the asyncio task
\* has finished
awaited(pc) == pc = "done"

\* DownloadManager.cancel_task(task_id) up to its first suspension.  With no
\* unfinished asyncio task registered the call runs to its row update; else
\* it cancels the asyncio task and waits for it.
CancelTask(t) ==
    /\ constructed
    /\ cancellable(download_tasks, t)
    /\ IF t \in running_tasks /\ ~awaited(pipeline[t].pc)
         THEN /\ cancel_calls[t] < MaxCancelCalls
              /\ pipeline' = [pipeline EXCEPT ![t].cancel_requested = TRUE]
              /\ cancel_calls' = [cancel_calls EXCEPT ![t] = @ + 1]
              /\ response' = None
              /\ UNCHANGED subtitle_vars
              /\ UNCHANGED << download_tasks, running_tasks >>
         ELSE /\ running_tasks' = del_running_task(running_tasks, t)
              /\ download_tasks' = update_task(download_tasks, t, cancelled_update)
              /\ response' = cancel_task_return(TRUE)
              /\ UNCHANGED subtitle_vars
              /\ UNCHANGED << pipeline, cancel_calls >>
    /\ UNCHANGED << files, constructed, semaphore, restarts, history >>

\* cancel_task lines 975-982: the task is unknown or not pending/downloading
CancelRefused(t) ==
    /\ constructed
    /\ ~cancellable(download_tasks, t)
    /\ response' = "False"
    /\ UNCHANGED subtitle_vars
    /\ UNCHANGED << download_tasks, files, constructed, semaphore, running_tasks,
                    pipeline, cancel_calls, restarts, history >>

\* cancel_task lines 990-1004: the awaited asyncio task has finished
CancelResume(t) ==
    /\ cancel_calls[t] > 0
    /\ awaited(pipeline[t].pc)
    /\ cancel_calls' = [cancel_calls EXCEPT ![t] = @ - 1]
    /\ running_tasks' = del_running_task(running_tasks, t)
    /\ download_tasks' = update_task(download_tasks, t, cancelled_update)
    /\ response' = cancel_task_return(TRUE)
    /\ UNCHANGED subtitle_vars
    /\ UNCHANGED << files, constructed, semaphore, pipeline, restarts, history >>

\* ------------------------------------------------------- the pipeline steps

Runs(t, pc) ==
    /\ constructed
    /\ pipeline[t].pc = pc
    /\ ~pipeline[t].cancel_requested

\* `async with self._semaphore` (line 311).  An asyncio task that starts, or
\* is woken in acquire, with a permit free takes it and runs to the await of
\* download_video (lines 311-339); one that starts with no permit free waits
\* in acquire.
Acquire(t, info, pre) ==
    /\ Runs(t, "scheduled") \/ ( Runs(t, "wait_sem") /\ can_acquire(semaphore) )
    /\ IF can_acquire(semaphore)
         THEN Commit(t, begin_attempt(fetch_title(Execution(t), info), pre),
                     semaphore - 1)
         ELSE /\ pipeline' = [pipeline EXCEPT ![t].pc = "wait_sem"]
              /\ UNCHANGED << download_tasks, semaphore, running_tasks, history >>
    /\ response' = None
    /\ UNCHANGED subtitle_vars
    /\ UNCHANGED << files, constructed, cancel_calls, restarts >>

\* download_video returns or raises: lines 339-380
FetchReturn(t, cond, info) ==
    /\ Runs(t, "fetching")
    /\ Commit(t, after_fetch(Execution(t), cond, info), semaphore)
    /\ files' = IF cond = "ok"
                  THEN files \cup {generate_filename_from_url(download_tasks[t].url)}
                  ELSE files
    /\ response' = None
    /\ UNCHANGED subtitle_vars
    /\ UNCHANGED << constructed, cancel_calls, restarts >>

\* _create_video_record returns
ImportReturn(t, video_id) ==
    /\ Runs(t, "importing")
    /\ Commit(t, after_import(Execution(t), video_id), semaphore)
    /\ response' = None
    /\ UNCHANGED subtitle_vars
    /\ UNCHANGED << files, constructed, cancel_calls, restarts >>

\* _process_dual_subtitles makes its last row update
ProcessReturn(t, outcome) ==
    /\ Runs(t, "processing")
    /\ Commit(t, after_process(Execution(t), outcome), semaphore)
    /\ response' = None
    /\ UNCHANGED subtitle_vars
    /\ UNCHANGED << files, constructed, cancel_calls, restarts >>

\* _process_dual_subtitles returns and _complete_task finishes
Finish(t) ==
    /\ Runs(t, "finishing")
    /\ Commit(t, complete_task_success(Execution(t)), semaphore)
    /\ response' = None
    /\ UNCHANGED subtitle_vars
    /\ UNCHANGED << files, constructed, cancel_calls, restarts >>

\* asyncio.sleep returns and the loop makes the next attempt
Wake(t, pre) ==
    /\ Runs(t, "sleeping")
    /\ Commit(t, begin_attempt(Execution(t), pre), semaphore)
    /\ response' = None
    /\ UNCHANGED subtitle_vars
    /\ UNCHANGED << files, constructed, cancel_calls, restarts >>

\* Task.cancel(): CancelledError is raised at the point where the asyncio
\* task is suspended.  A task cancelled before it ever ran does not execute
\* its body, so it neither holds a permit nor runs `finally`.
Interrupt(t) ==
    LET x == Execution(t)
        at == pipeline[t].pc
        y == on_cancelled([x EXCEPT !.h.interrupted_at = at])
    IN  /\ constructed
        /\ pipeline[t].cancel_requested
        /\ at \in Suspended
        /\ download_tasks' = [download_tasks EXCEPT ![t] = y.row]
        /\ pipeline' = [pipeline EXCEPT ![t].pc = y.pc,
                                        ![t].retry_count = y.retry_count,
                                        ![t].progress = y.progress]
        /\ history' = [history EXCEPT ![t] = y.h]
        /\ semaphore' = IF at \in HoldsPermit THEN release(semaphore) ELSE semaphore
        /\ running_tasks' = IF at = "scheduled" THEN running_tasks
                            ELSE del_running_task(running_tasks, t)
        /\ response' = None
        /\ UNCHANGED subtitle_vars
        /\ UNCHANGED << files, constructed, cancel_calls, restarts >>

\* ------------------------------------------------------- crash and restart

\* The process dies: the event loop, the manager and every coroutine go
Crash ==
    /\ constructed
    /\ restarts < MaxRestarts
    /\ restarts' = restarts + 1
    /\ constructed' = FALSE
    /\ semaphore' = max_concurrent
    /\ running_tasks' = {}
    /\ pipeline' = [t \in TaskIds |-> NoPipeline]
    /\ cancel_calls' = [t \in TaskIds |-> 0]
    /\ history' = [t \in TaskIds |-> NoHistory]
    /\ response' = None
    /\ UNCHANGED subtitle_vars
    /\ UNCHANGED << download_tasks, files >>

\* get_download_manager on the first request of the new process:
\* DownloadManager.__init__ with _restore_active_tasks
Construct ==
    /\ ~constructed
    /\ constructed' = TRUE
    /\ download_tasks' = [i \in DOMAIN download_tasks |->
                            restore_active_task(download_tasks[i])]
    /\ response' = None
    /\ UNCHANGED subtitle_vars
    /\ UNCHANGED << files, semaphore, running_tasks, pipeline, cancel_calls,
                    restarts, history >>

\* ------------------------------------------------- administrative reset

\* DatabaseAdmin.reset_hanging_tasks: one UPDATE, run from outside the
\* manager, whatever the manager is doing
reset_hanging_task(task) ==
    IF task.status = "downloading"
      THEN [task EXCEPT !.status = "pending",
                        !.status_message = "Reset after service restart"]
      ELSE task

ResetHangingTasks ==
    /\ download_tasks' = [i \in DOMAIN download_tasks |->
                            reset_hanging_task(download_tasks[i])]
    /\ response' = None
    /\ UNCHANGED subtitle_vars
    /\ UNCHANGED << files, constructed, semaphore, running_tasks, pipeline,
                    cancel_calls, restarts, history >>

\* The i-th superseded asyncio task of row t as an execution state
StaleExecution(t, i) ==
    [ row |-> download_tasks[t], pc |-> pipeline[t].stale[i].pc,
      retry_count |-> pipeline[t].stale[i].retry_count,
      progress |-> pipeline[t].stale[i].progress, h |-> NoHistory ]

\* What _download_task does next from the suspension point x.pc: the same
\* code as for a registered asyncio task (lines 311-389)
Moves(x) ==
    LET pres == {"ok", "OperationalError"}
    IN  CASE x.pc \in {"scheduled", "wait_sem"} ->
               IF can_acquire(semaphore)
                 THEN { [x |-> begin_attempt(fetch_title(x, info), pre),
                         fetched |-> FALSE] :
                          info \in LookupOutcomes, pre \in pres }
                 ELSE IF x.pc = "scheduled"
                        THEN { [x |-> [x EXCEPT !.pc = "wait_sem"],
                                fetched |-> FALSE] }
                        ELSE {}
          [] x.pc = "fetching" ->
               { [x |-> after_fetch(x, cond, info), fetched |-> cond = "ok"] :
                   cond \in FetchConditions, info \in LookupOutcomes }
          [] x.pc = "importing" ->
               { [x |-> after_import(x, video_id), fetched |-> FALSE] :
                   video_id \in {"id", None} }
          [] x.pc = "processing" ->
               { [x |-> after_process(x, outcome), fetched |-> FALSE] :
                   outcome \in ProcessOutcomes }
          [] x.pc = "finishing" ->
               { [x |-> complete_task_success(x), fetched |-> FALSE] }
          [] x.pc = "sleeping" ->
               { [x |-> begin_attempt(x, pre), fetched |-> FALSE] : pre \in pres }
          [] OTHER -> {}

\* stale without its i-th entry
Without(stale, i) ==
    SubSeq(stale, 1, i - 1) \o SubSeq(stale, i + 1, Len(stale))

\* A superseded asyncio task of row t takes its next step.  It writes the
\* same row, uses the same semaphore, and its `finally` (lines 386-389)
\* deletes the registry entry of the task_id, whoever put it there.
SupersededStep(t) ==
    \E i \in DOMAIN pipeline[t].stale :
      \E m \in Moves(StaleExecution(t, i)) :
        LET was == pipeline[t].stale[i].pc
            taken == was \in {"scheduled", "wait_sem"} /\ m.x.pc # "wait_sem"
            given == m.x.pc = "done"
        IN  /\ constructed
            /\ download_tasks' = [download_tasks EXCEPT ![t] = m.x.row]
            /\ pipeline' = [pipeline EXCEPT ![t].stale =
                   IF given
                     THEN Without(@, i)
                     ELSE [@ EXCEPT ![i] = [pc |-> m.x.pc,
                                            retry_count |-> m.x.retry_count,
                                            progress |-> m.x.progress]]]
            /\ semaphore' =
                 LET permits == IF taken THEN semaphore - 1 ELSE semaphore
                 IN  IF given THEN release(permits) ELSE permits
            /\ running_tasks' = IF given
                                  THEN del_running_task(running_tasks, t)
                                  ELSE running_tasks
            /\ files' = IF m.fetched
                          THEN files \cup {generate_filename_from_url(download_tasks[t].url)}
                          ELSE files
            /\ response' = None
            /\ UNCHANGED subtitle_vars
            /\ UNCHANGED << constructed, cancel_calls, restarts, history >>

\* The calls the API layer makes on the manager, for the urls in `urls`
RequestsFor(urls, cap) ==
    \/ \E url \in urls, lookup \in LookupOutcomes : CreateTask(url, lookup, cap)
    \/ \E url \in urls, lookup \in LookupOutcomes :
          CreateDownloadTask(url, lookup, cap)
    \/ \E t \in TaskIds : StartTask(t)
    \/ \E t \in TaskIds : CancelTask(t)

Requests(cap) == RequestsFor(Urls, cap)

\* The urls that reach the manager without surrounding whitespace
StrippedUrls == { url \in Urls : strip(url) = url }

\* Two urls of different videos that resolve to one title
DedupUrls == { [vid |-> "a", pad |-> FALSE], [vid |-> "c", pad |-> FALSE] }

\* POST /downloads and DELETE /downloads/{task_id} alone
RouteRequests(cap) ==
    \/ \E url \in Urls, lookup \in LookupOutcomes :
          CreateDownloadTask(url, lookup, cap)
    \/ \E t \in TaskIds : CancelTask(t)

\* What the event loop runs for task t without a new request
PipelineStep(t) ==
    \/ \E info \in LookupOutcomes, pre \in {"ok", "OperationalError"} :
          Acquire(t, info, pre)
    \/ \E cond \in FetchConditions, info \in LookupOutcomes :
          FetchReturn(t, cond, info)
    \/ \E video_id \in {"id", None} : ImportReturn(t, video_id)
    \/ \E outcome \in ProcessOutcomes : ProcessReturn(t, outcome)
    \/ Finish(t)
    \/ \E pre \in {"ok", "OperationalError"} : Wake(t, pre)
    \/ Interrupt(t)
    \/ CancelResume(t)

\* One process serving requests
Next ==
    \/ Requests(MaxTasks)
    \/ \E t \in TaskIds : PipelineStep(t)

Spec == Init /\ [][Next]_vars

\* Processes that may crash and be started again
NextRestart ==
    \/ Requests(RestartTasks)
    \/ \E t \in TaskIds : PipelineStep(t)
    \/ Crash
    \/ Construct

SpecRestart == Init /\ [][NextRestart]_vars

\* The same with the scheduling the event loop guarantees: a coroutine that
\* can run is run, the adapters return, a waiter of the semaphore is woken
\* when a permit is free, and a request reaches a restarted process.  No
\* client is obliged to send a create or a cancel request.
NextLive ==
    \/ RouteRequests(RestartTasks)
    \/ \E t \in TaskIds : PipelineStep(t)
    \/ Crash
    \/ Construct

SpecLive ==
    /\ Init
    /\ [][NextLive]_vars
    /\ \A t \in TaskIds : SF_vars(PipelineStep(t))
    /\ WF_vars(Construct)

\* The manager, process restarts, and an administrator who resets hanging
\* tasks while the service runs
NextAdmin ==
    \/ Requests(AdminTasks)
    \/ \E t \in TaskIds : PipelineStep(t)
    \/ \E t \in TaskIds : SupersededStep(t)
    \/ ResetHangingTasks
    \/ Crash
    \/ Construct

SpecAdmin == Init /\ [][NextAdmin]_vars

\* One process under a fair event loop, the urls submitted as they are
\* stored: a coroutine that can take its next
\* step (an awaited call returns, a permit is free, a cancellation is
\* delivered) eventually takes it
NextFair ==
    \/ RequestsFor(StrippedUrls, MaxTasks)
    \/ \E t \in TaskIds : PipelineStep(t)

SpecFair ==
    Init /\ [][NextFair]_vars /\ \A t \in TaskIds : SF_vars(PipelineStep(t))

\* One process, with the start_task and cancel_task calls that are refused
NextCancel ==
    \/ Next
    \/ \E t \in TaskIds : StartRefused(t)
    \/ \E t \in TaskIds : CancelRefused(t)

SpecCancel == Init /\ [][NextCancel]_vars

\* One process that is sent two urls resolving to one title
NextDedup ==
    \/ RequestsFor(DedupUrls, MaxTasks)
    \/ \E t \in TaskIds : PipelineStep(t)

SpecDedup == Init /\ [][NextDedup]_vars

\* The two spellings of the url of one video, watch?v=<id> and
\* youtu.be/<id>: different strings with one video id and one file name
SameVideoUrls ==
    { [vid |-> "a", pad |-> FALSE, form |-> form] :
        form \in {"watch", "youtu.be"} }

\* One process that is sent both spellings
NextSameVideo ==
    \/ RequestsFor(SameVideoUrls, MaxTasks)
    \/ \E t \in TaskIds : PipelineStep(t)

SpecSameVideo == Init /\ [][NextSameVideo]_vars

\* --------------------------------------------------------- subtitle tracks
\* Times are counted in units of 100 ms, the default sync_tolerance; where
\* the float arithmetic of the code departs from exact arithmetic on this
\* grid, the rounding is tabulated.  A segment
\* is [sequence, start_time, end_time, text]; texts are never blank, as
\* _parse_vtt_file stores them stripped.

Abs(x) == IF x < 0 THEN -x ELSE x

\* the first index a `for` loop over a list reaches among those in S
First(S) == CHOOSE i \in S : \A j \in S : i <= j

\* The k in 1..30 for which the double k/10 - 0.1 lies above the double
\* (k-1)/10 under IEEE 754 round-to-nearest: 0.4 - 0.1 is
\* 0.30000000000000004 and 0.8 - 0.1 is 0.7000000000000001
SubtractionRoundsUp == {4, 8}

\* `start - self.sync_tolerance <= end` in float arithmetic, for times that
\* are multiples of 100 ms up to 3 s
minus_tolerance_le(start, end) ==
    \/ start - sync_tolerance < end
    \/ start - sync_tolerance = end /\ start \notin SubtractionRoundsUp

\* SubtitleGenerator._timelines_overlap
timelines_overlap(start1, end1, start2, end2) ==
    /\ minus_tolerance_le(start1, end2)
    /\ minus_tolerance_le(start2, end1)

\* A matcher without the lookup by sequence number
find_matching_by_time_only(en_segment, chinese_segments) ==
    LET overlapping ==
          { j \in DOMAIN chinese_segments :
              timelines_overlap(en_segment.start_time, en_segment.end_time,
                                chinese_segments[j].start_time,
                                chinese_segments[j].end_time) }
    IN  IF overlapping # {} THEN chinese_segments[First(overlapping)].text
        ELSE en_segment.text

\* SubtitleGenerator._find_matching_chinese_text: the first segment that
\* overlaps, else the first with the same sequence number, else the text of
\* en_segment itself
find_matching_chinese_text(en_segment, chinese_segments) ==
    LET overlapping ==
          { j \in DOMAIN chinese_segments :
              timelines_overlap(en_segment.start_time, en_segment.end_time,
                                chinese_segments[j].start_time,
                                chinese_segments[j].end_time) }
        same_sequence ==
          { j \in DOMAIN chinese_segments :
              chinese_segments[j].sequence = en_segment.sequence }
    IN  IF overlapping # {} THEN chinese_segments[First(overlapping)].text
        ELSE IF same_sequence # {} THEN chinese_segments[First(same_sequence)].text
        ELSE en_segment.text

\* A pass that leaves every end_time as it found it
end_time_kept(start_time, end_time) == end_time

\* sync_timeline lines 172-179: an end that is not after the start is set
\* one second after it
repaired_end_time(start_time, end_time) ==
    IF end_time <= start_time THEN start_time + min_duration ELSE end_time

\* sync_timeline lines 163-169: a start within the tolerance of the end of
\* the previous synced segment is moved onto it (the 1e-9 added to the
\* tolerance absorbs the float rounding of times on the 100 ms grid)
aligned_start_time(current_start, prev_end) ==
    IF Abs(current_start - prev_end) <= sync_tolerance
      THEN prev_end
      ELSE current_start

\* SubtitleGenerator.sync_timeline
RECURSIVE sync_timeline(_)
sync_timeline(segments) ==
    IF segments = << >> THEN << >>
    ELSE LET n == Len(segments)
             synced == sync_timeline(SubSeq(segments, 1, n - 1))
             segment == segments[n]
             start_time ==
               IF n > 1
                 THEN aligned_start_time(segment.start_time, synced[n - 1].end_time)
                 ELSE segment.start_time
             end_time == repaired_end_time(start_time, segment.end_time)
         IN  Append(synced, [segment EXCEPT !.start_time = start_time,
                                            !.end_time = end_time])

\* SubtitleGenerator.generate_bilingual_subtitles; of each output segment
\* the sequence, the times and the two texts are kept
generate_bilingual_subtitles(english_segments, chinese_segments) ==
    IF english_segments = << >> THEN << >>
    ELSE IF chinese_segments = << >>
      THEN [i \in DOMAIN english_segments |->
              [sequence |-> english_segments[i].sequence,
               start_time |-> english_segments[i].start_time,
               end_time |-> english_segments[i].end_time,
               english |-> english_segments[i].text,
               chinese |-> english_segments[i].text]]
    ELSE sync_timeline(
           [i \in DOMAIN english_segments |->
              [sequence |-> english_segments[i].sequence,
               start_time |-> english_segments[i].start_time,
               end_time |-> english_segments[i].end_time,
               english |-> english_segments[i].text,
               chinese |-> find_matching_chinese_text(english_segments[i],
                                                      chinese_segments)]])

\* _generate_dual_srt lines 871-879: the indices best_match can end on.
\* The first segment of least time_diff is kept; of two segments as far
\* before zh_seg as after it, float rounding makes either time_diff the
\* smaller (|0.3 - 0.2| < |0.1 - 0.2|, |0.2 - 0.3| < |0.4 - 0.3|), so the
\* first segment of either start_time may be kept.
best_matches(zh_seg, en_segments) ==
    LET time_diff(j) == Abs(en_segments[j].start_time - zh_seg.start_time)
        closest == { j \in DOMAIN en_segments :
                       \A k \in DOMAIN en_segments : time_diff(j) <= time_diff(k) }
    IN  IF en_segments = << >> THEN {0}
        ELSE { First({ k \in closest : en_segments[k].start_time
                                          = en_segments[j].start_time }) :
               j \in closest }

\* DownloadManager._generate_dual_srt: the dual_segments it can build, each
\* with the index it is written under; 'en' is "" when there is no English
\* segment.  The timestamps written by format_srt_time are not modelled.
generate_dual_srt(zh_segments, en_segments) ==
    { [idx \in DOMAIN zh_segments |->
         [idx |-> idx, start |-> zh_segments[idx].start_time,
          end |-> zh_segments[idx].end_time, zh |-> zh_segments[idx].text,
          en |-> IF best_match[idx] = 0 THEN ""
                 ELSE en_segments[best_match[idx]].text]] :
      best_match \in
        { c \in [DOMAIN zh_segments -> 0..Len(en_segments)] :
            \A idx \in DOMAIN zh_segments :
                c[idx] \in best_matches(zh_segments[idx], en_segments) } }

\* texts of the segments of a track: pairwise distinct
TrackTexts ==
    [r |-> << "r1", "r2", "r3", "r4" >>, o |-> << "o1", "o2", "o3", "o4" >>]

Intervals == { iv \in (0..MaxTime) \X (0..MaxTime) : iv[1] < iv[2] }

\* the tracks named `name` whose sequence numbers count from `first`
Tracks(name, first) ==
    UNION { { [i \in 1..n |->
                 [sequence |-> first + i - 1, start_time |-> f[i][1],
                  end_time |-> f[i][2], text |-> TrackTexts[name][i]]] :
              f \in [1..n -> Intervals] } : n \in 0..MaxSegments }

\* the sequence number of the first segment of a track
Numberings == {1, 2}

\* ------------------------------------------------------------ .vtt import
\* A block of the file is a cue, with two timestamps and its text lines
\* joined ("" when it has none), or a NOTE.

Timestamps == { [minutes |-> m, tenths |-> s] : m \in 0..1, s \in 0..MaxTenths }

\* DownloadManager._timestamp_to_seconds, for MM:SS.mmm
timestamp_to_seconds(timestamp) == timestamp.minutes * minute + timestamp.tenths

VttBlocks ==
    { [kind |-> "NOTE", start |-> ts, end |-> ts, text |-> ""] :
        ts \in { [minutes |-> 0, tenths |-> 0] } }
      \cup
    { [kind |-> "cue", start |-> a, end |-> b, text |-> x] :
        a \in Timestamps, b \in Timestamps, x \in {"", "line"} }

VttFiles == UNION { [1..n -> VttBlocks] : n \in 0..MaxBlocks }

\* DownloadManager._parse_vtt_file: a block with a timestamp line and text
\* gives one segment
parse_vtt_file(blocks) ==
    LET has_cue(block) == block.kind = "cue" /\ block.text # ""
        kept == SelectSeq(blocks, has_cue)
    IN  [i \in DOMAIN kept |->
           [start |-> timestamp_to_seconds(kept[i].start),
            end |-> timestamp_to_seconds(kept[i].end),
            text |-> kept[i].text]]

\* DownloadManager._import_subtitles lines 581-609: the rows added for the
\* segments of one file
import_subtitles(segments) ==
    [seq \in DOMAIN segments |->
       [sequence |-> seq, start_time |-> segments[seq].start,
        end_time |-> segments[seq].end, text |-> segments[seq].text]]

\* ---------------------------------------------------- subtitle operations

\* _import_subtitles handles one .vtt file
ImportSubtitles ==
    /\ subtitle_segments = << >>
    /\ subtitle_segments' = import_subtitles(parse_vtt_file(vtt_file))
    /\ UNCHANGED << manager_vars, vtt_file, reference_track, other_track,
                    bilingual >>

\* generate_bilingual_subtitles(reference_track, other_track)
GenerateBilingualSubtitles ==
    /\ bilingual = NotAligned
    /\ bilingual' =
         [aligner |-> "generate_bilingual_subtitles",
          segments |-> generate_bilingual_subtitles(reference_track, other_track)]
    /\ UNCHANGED << manager_vars, vtt_file, subtitle_segments, reference_track,
                    other_track >>

\* _generate_dual_srt(reference_track, other_track, output_path)
GenerateDualSrt ==
    /\ bilingual = NotAligned
    /\ \E dual_segments \in generate_dual_srt(reference_track, other_track) :
          bilingual' = [aligner |-> "_generate_dual_srt",
                        segments |-> dual_segments]
    /\ UNCHANGED << manager_vars, vtt_file, subtitle_segments, reference_track,
                    other_track >>

\* sync_timeline(reference_track)
SyncTimeline ==
    /\ bilingual = NotAligned
    /\ bilingual' = [aligner |-> "sync_timeline",
                     segments |-> sync_timeline(reference_track)]
    /\ UNCHANGED << manager_vars, vtt_file, subtitle_segments, reference_track,
                    other_track >>

\* A .vtt file that yt-dlp left beside the video
InitImport ==
    /\ ManagerInit
    /\ vtt_file \in VttFiles
    /\ subtitle_segments = << >>
    /\ reference_track = << >>
    /\ other_track = << >>
    /\ bilingual = NotAligned

SpecImport == InitImport /\ [][ImportSubtitles]_vars

\* Two tracks handed to an aligner: another track, or the reference itself
InitAlign ==
    /\ ManagerInit
    /\ vtt_file = << >>
    /\ subtitle_segments = << >>
    /\ \E first \in Numberings : reference_track \in Tracks("r", first)
    /\ \/ \E first \in Numberings : other_track \in Tracks("o", first)
       \/ other_track = reference_track
    /\ bilingual = NotAligned

NextAlign ==
    \/ GenerateBilingualSubtitles
    \/ GenerateDualSrt

SpecAlign == InitAlign /\ [][NextAlign]_vars

\* the segments sync_timeline may be given: any two times each, the end
\* before, at or after the start
SyncInputs(last) ==
    UNION { { [i \in 1..n |->
                 [sequence |-> i, start_time |-> f[i][1], end_time |-> f[i][2],
                  text |-> TrackTexts.r[i]]] :
              f \in [1..n -> (0..last) \X (0..last)] } :
            n \in 0..MaxSegments }

\* Segments handed to sync_timeline
InitSync ==
    /\ ManagerInit
    /\ vtt_file = << >>
    /\ subtitle_segments = << >>
    /\ reference_track \in SyncInputs(MaxSyncTime)
    /\ other_track = << >>
    /\ bilingual = NotAligned

SpecSync == InitSync /\ [][SyncTimeline]_vars

\* ------------------------------------------------------------------ claims

Rows == DOMAIN download_tasks
Row(t) == download_tasks[t]

\* C1: for every url, at most one row with that url is pending or
\* downloading.
AtMostOneActivePerUrl ==
    \A i, j \in Rows :
        ( /\ Row(i).url = Row(j).url
          /\ Row(i).status \in ActiveStatuses
          /\ Row(j).status \in ActiveStatuses ) => i = j

\* C2: once the status of a row is completed, failed (error) or cancelled,
\* no step of any request, pipeline or restart changes it.
TerminalIsAbsorbing ==
    [][ \A t \in Rows :
          Row(t).status \in TerminalStatuses
            => download_tasks'[t].status = Row(t).status ]_vars

\* C2 witness: startup recovery has run over a table holding a terminal row
TerminalRowAfterRestart ==
    /\ restarts > 0
    /\ constructed
    /\ \E t \in Rows : Row(t).status \in TerminalStatuses

InterruptedIsNeverFailed ==
    \A t \in Rows :
        history[t].interrupted_at # None =>
            /\ pipeline[t].pc = "done"
            /\ Row(t).error_message = None
            /\ Row(t).status \in {"downloading", "cancelled"}
            /\ cancel_calls[t] = 0 => Row(t).status = "cancelled"

\* C4 witness: a task cancelled during its backoff sleep
CancelledDuringBackoff ==
    \E t \in Rows :
        /\ history[t].interrupted_at = "sleeping"
        /\ Row(t).status = "cancelled"

\* C5: the cancelled status is written when the asyncio task of the row is
\* no longer suspended anywhere, and the row does not change afterwards.
CancelledAfterTermination ==
    [][ \A t \in Rows :
          /\ ( Row(t).status # "cancelled" /\ download_tasks'[t].status = "cancelled" )
                => pipeline[t].pc \notin Suspended
          /\ Row(t).status = "cancelled" => download_tasks'[t] = Row(t) ]_vars

\* C5 witness: a task cancelled while download_video was awaited
CancelledWhileFetching ==
    \E t \in Rows :
        /\ history[t].interrupted_at = "fetching"
        /\ Row(t).status = "cancelled"
        /\ cancel_calls[t] = 0

\* C6: for an execution that started at retry_count 0, every retried failure
\* adds one to the persisted retry_count, the n-th sleep lasts 2^(n-1)
\* seconds, and an execution that fails on retryable errors alone has made
\* max_retries + 1 attempts.
BackoffProperty ==
    \A t \in Rows :
        LET h == history[t]
            ExpectedSleeps == << 1, 2, 4, 8, 16, 32 >>
        IN  h.start_retry = 0 =>
              /\ Len(h.sleeps) <= Len(ExpectedSleeps)
              /\ h.sleeps = SubSeq(ExpectedSleeps, 1, Len(h.sleeps))
              /\ Row(t).retry_count = Len(h.sleeps)
              /\ pipeline[t].pc = "sleeping" => h.attempts = Len(h.sleeps)
              /\ pipeline[t].pc \in Working => h.attempts = Len(h.sleeps) + 1
              /\ ( Row(t).status = "error" /\ h.raised = "OperationalError" )
                    => /\ h.attempts = max_retries + 1
                       /\ Len(h.sleeps) = max_retries

\* C6 witness: every attempt raised a retryable error until none was left
RetriesExhausted ==
    \E t \in Rows :
        /\ Row(t).status = "error"
        /\ history[t].raised = "OperationalError"
        /\ history[t].sleeps = << 1, 2 >>
        /\ history[t].attempts = 3

\* C7: an attempt that raised VideoNotFoundError left the row failed with
\* the error recorded, the retry_count as it was, no sleep added and no
\* further attempt.
PermanentErrorFailsAtOnce ==
    \A t \in Rows :
        LET h == history[t]
        IN  h.raised = "VideoNotFoundError" =>
              /\ Row(t).status = "error"
              /\ Row(t).error_message = "VideoNotFoundError"
              /\ Row(t).retry_count = h.retry_at_raise
              /\ Len(h.sleeps) = h.retry_at_raise - h.start_retry
              /\ h.attempts = Len(h.sleeps) + 1
              /\ pipeline[t].pc = "done"

\* C7 witness: a permanent error on the first attempt, with retries left
PermanentErrorWithRetriesLeft ==
    \E t \in Rows :
        /\ history[t].raised = "VideoNotFoundError"
        /\ history[t].retry_at_raise = 0
        /\ history[t].cond = "unavailable"
        /\ Row(t).status = "error"

\* C8: a media fetch that fails on a network failure or a timeout while
\* retry_count < max_retries does not fail the task.
TransientFetchIsRetried ==
    \A t \in Rows :
        ( /\ history[t].cond \in TransientConditions
          /\ history[t].retry_at_raise < max_retries )
            => Row(t).status \notin {"error", "failed"}

\* C9: constructing the manager sets every downloading row to pending with
\* the restore note, changes no other row, and leaves no row downloading.
RecoveryResetsDownloading ==
    [][ ( ~constructed /\ constructed' ) =>
          /\ DOMAIN download_tasks' = Rows
          /\ \A t \in Rows :
                /\ Row(t).status = "downloading" =>
                      download_tasks'[t] =
                        [Row(t) EXCEPT
                           !.status = "pending",
                           !.status_message = "Restored after service restart"]
                /\ Row(t).status # "downloading" => download_tasks'[t] = Row(t)
                /\ download_tasks'[t].status = "downloading"
                      => pipeline'[t].pc \in Suspended ]_vars

\* C9 witness: a row restored by the new process
RestoredAfterRestart ==
    /\ constructed
    /\ restarts > 0
    /\ \E t \in Rows :
          /\ Row(t).status = "pending"
          /\ Row(t).status_message = "Restored after service restart"
          /\ Row(t).started_at

\* C10: every row that is pending or downloading eventually reaches a
\* terminal status.
NoTaskStuck ==
    \A t \in TaskIds :
        ( t \in Rows /\ Row(t).status \in ActiveStatuses )
          ~> ( t \in Rows /\ Row(t).status \in TerminalStatuses )

\* C11: a row never has more than one unfinished asyncio task running
\* _download_task.
AtMostOneLiveExecution ==
    \A t \in TaskIds :
        (IF pipeline[t].pc \in Suspended THEN 1 ELSE 0) + Len(pipeline[t].stale) <= 1

\* C12: a cancel_task call on a pending or downloading row either writes
\* cancelled with completed_at at once or waits for the asyncio task, and a
\* waiting call ends with the row cancelled, completed_at stamped, for good.
CancelAlwaysCancels ==
    /\ [][ \A t \in TaskIds :
             CancelTask(t) =>
               \/ cancel_calls'[t] = cancel_calls[t] + 1
               \/ /\ download_tasks'[t].status = "cancelled"
                  /\ download_tasks'[t].completed_at ]_vars
    /\ \A t \in TaskIds :
          cancel_calls[t] > 0
            ~> [] ( /\ t \in Rows
                    /\ Row(t).status = "cancelled"
                    /\ Row(t).completed_at
                    /\ cancel_calls[t] = 0 )

\* C12 witness: cancelled during post-processing, after the fetch succeeded
CancelledInPostProcessing ==
    \E t \in Rows :
        /\ history[t].interrupted_at \in {"importing", "processing"}
        /\ history[t].cond = "ok"
        /\ Row(t).status = "cancelled"
        /\ Row(t).completed_at

\* C13: a cancel_task call that ends on a pending or downloading row
\* returns true; one on an unknown, completed, failed or cancelled task
\* returns false and changes no row; no call raises an error.
CancelReturnsBoolean ==
    [][ \A t \in TaskIds :
          /\ ( \/ CancelTask(t) /\ cancel_calls'[t] = cancel_calls[t]
               \/ CancelResume(t) ) => response' = "True"
          /\ CancelRefused(t) =>
               response' = "False" /\ download_tasks' = download_tasks ]_vars

\* C14: start_task on a pending row sets it downloading with started_at,
\* schedules the asyncio task, takes no permit and returns; every asyncio
\* task scheduled for an existing row finds it pending; start_task on an
\* unknown or non-pending task raises and changes nothing.
StartOnlyFromPending ==
    [][ \A t \in TaskIds :
          /\ StartTask(t) =>
               /\ t \in Rows
               /\ Row(t).status = "pending"
               /\ download_tasks' = [download_tasks EXCEPT
                                       ![t].status = "downloading",
                                       ![t].started_at = TRUE]
               /\ pipeline'[t].pc = "scheduled"
               /\ t \in running_tasks'
               /\ semaphore' = semaphore
               /\ response' = None
          /\ ( t \in Rows /\ pipeline[t].pc # "scheduled"
                          /\ pipeline'[t].pc = "scheduled" ) =>
               Row(t).status = "pending"
          /\ StartRefused(t) =>
               /\ t \notin Rows \/ Row(t).status # "pending"
               /\ response' = "ValueError"
               /\ download_tasks' = download_tasks
               /\ pipeline' = pipeline
               /\ running_tasks' = running_tasks ]_vars

\* C14 witness: one task started and not yet run, with every permit free,
\* when start_task on a finished task has just been refused
StartedAndRefused ==
    \E t, u \in Rows :
        /\ pipeline[t].pc = "scheduled"
        /\ Row(t).status = "downloading"
        /\ Row(t).started_at
        /\ semaphore = max_concurrent
        /\ Row(u).status \in TerminalStatuses
        /\ response = "ValueError"

DedupReturnsActive ==
    \A url \in Urls, lookup \in LookupOutcomes :
        LET active == { i \in Rows : Row(i).url = url
                                      /\ Row(i).status \in ActiveStatuses }
            r == create_task(download_tasks, files, url, lookup)
        IN  active # {} => r.tasks = download_tasks /\ r.task_id \in active

\* C17: whenever a completed row has the title that url u resolves to and
\* no row with url u is pending or downloading, create_task(u) returns a
\* completed row of that title and leaves the table as it is, so the POST
\* route starts nothing.
TitleDedupReturnsCompleted ==
    \A url \in DedupUrls :
        LET title == video_title(extract_video_id(url))
            done == { i \in Rows : Row(i).title = title
                                    /\ Row(i).status = "completed" }
            active == { i \in Rows : Row(i).url = url
                                      /\ Row(i).status \in ActiveStatuses }
            r == create_task(download_tasks, files, url, "info")
        IN  ( done # {} /\ active = {} ) =>
              /\ r.tasks = download_tasks
              /\ r.task_id \in done
              /\ r.status = "completed"

\* C17 witness: the video of one url is completed, and the other url, which
\* resolves to the same title, has no task
CompletedUnderOtherUrl ==
    \E i \in Rows :
        /\ Row(i).status = "completed"
        /\ Row(i).title = video_title("c")
        /\ Row(i).url.vid = "a"
        /\ history[i].cond = "ok"
        /\ \A j \in Rows : Row(j).url.vid # "c"

\* C18: when no row with url u is active, no completed row has its title
\* and its output file exists, create_task(u) appends one row, completed
\* with progress 100, and returns it; such a row is never started: it is
\* never pending or downloading and no fetch is made for it.
ExistingFileCompletesAtOnce ==
    /\ \A url \in DedupUrls :
          LET title == video_title(extract_video_id(url))
              done == { i \in Rows : Row(i).title = title
                                      /\ Row(i).status = "completed" }
              active == { i \in Rows : Row(i).url = url
                                        /\ Row(i).status \in ActiveStatuses }
              r == create_task(download_tasks, files, url, "info")
          IN  ( /\ done = {}
                /\ active = {}
                /\ generate_filename_from_url(url) \in files ) =>
                /\ Len(r.tasks) = Len(download_tasks) + 1
                /\ SubSeq(r.tasks, 1, Len(download_tasks)) = download_tasks
                /\ r.task_id = Len(r.tasks)
                /\ r.tasks[r.task_id].url = url
                /\ r.tasks[r.task_id].status = "completed"
                /\ r.tasks[r.task_id].progress = 100
                /\ r.status = "completed"
    /\ \A t \in Rows :
          Row(t).status_message = "File already exists" =>
            /\ Row(t).status = "completed"
            /\ Row(t).progress = 100
            /\ ~Row(t).started_at
            /\ pipeline[t].pc = "none"
            /\ history[t].attempts = 0

\* C18 witness: a task synthesized for a file that an earlier, cancelled
\* task had fetched
SynthesizedFromExistingFile ==
    \E t, u \in Rows :
        /\ Row(t).status = "cancelled"
        /\ history[t].cond = "ok"
        /\ Row(u).status_message = "File already exists"
        /\ Row(u).url = Row(t).url
        /\ generate_filename_from_url(Row(u).url) \in files

\* C19: create_task always returns a row of the table; when it reaches
\* the identity lookup and the lookup fails, it appends one row for the url,
\* failed, with the lookup error in error_message, and returns it failed;
\* no asyncio task is ever created for such a row.
FailedLookupIsRecorded ==
    /\ \A url \in Urls, lookup \in LookupOutcomes :
          LET r == create_task(download_tasks, files, url, lookup)
              n == Len(download_tasks)
          IN  /\ r.task_id \in DOMAIN r.tasks
              /\ r.tasks[r.task_id].status = r.status
              /\ ( /\ lookup # "info"
                   /\ get_active_task_by_url(download_tasks, strip(url)) = 0 ) =>
                   /\ Len(r.tasks) = n + 1
                   /\ SubSeq(r.tasks, 1, n) = download_tasks
                   /\ r.task_id = n + 1
                   /\ r.tasks[n + 1].url = url
                   /\ r.tasks[n + 1].status = "error"
                   /\ r.tasks[n + 1].error_message = "Failed to get video info"
    /\ \A t \in Rows :
          Row(t).error_message = "Failed to get video info" =>
            /\ Row(t).status = "error"
            /\ ~Row(t).started_at
            /\ pipeline[t].pc = "none"

\* C19 witness: a row persisted for a submission whose lookup failed
FailedLookupRow ==
    \E t \in Rows :
        /\ Row(t).error_message = "Failed to get video info"
        /\ Row(t).status = "error"
        /\ Row(t).title = None

\* C20: when _process_dual_subtitles has reported a missing subtitle
\* language or a failed mux, the task ends completed with progress 100 and no
\* error_message, and the status_message it ends with is the one reporting
\* that condition.
PartialFailureIsReported ==
    [][ \A t \in TaskIds :
          ( /\ Finish(t)
            /\ Row(t).status_message \in
                 {"Missing required subtitle languages", "FFmpeg embedding failed"} )
            => /\ download_tasks'[t].status = "completed"
               /\ download_tasks'[t].progress = 100
               /\ download_tasks'[t].error_message = None
               /\ download_tasks'[t].status_message = Row(t).status_message ]_vars

\* C21: every status a row ever holds is one of pending, downloading,
\* completed, failed, cancelled; a row whose pipeline failed or whose lookup
\* failed at creation holds failed.
PersistedStatusIsWireValue ==
    \A t \in Rows :
        /\ Row(t).status \in {"pending", "downloading", "completed", "failed",
                              "cancelled"}
        /\ ( \/ history[t].raised # None /\ pipeline[t].pc = "done"
             \/ Row(t).error_message = "Failed to get video info" )
              => Row(t).status = "failed"

\* C22: the progress of every row is an integer in 0..100, and while an
\* attempt of its pipeline is under way (from the write that begins the
\* attempt to the write that ends it) no write lowers it.
ProgressNeverDecreases ==
    [][ \A t \in Rows :
          /\ download_tasks'[t].progress \in 0..100
          /\ ( /\ pipeline[t].pc \in Working
               /\ history'[t].attempts = history[t].attempts )
                => download_tasks'[t].progress >= Row(t).progress ]_vars

\* C23: once download_video has returned for a row its file_path is set,
\* and every completed row, produced by the pipeline or synthesized by
\* create_task from an existing file, has a file_path.
FilePathSetOnceFetched ==
    \A t \in Rows :
        ( history[t].cond = "ok" \/ Row(t).status = "completed" )
          => Row(t).file_path # None

\* What the aligner that ran has emitted: per output segment its sequence
\* number, the text of the reference segment and the text of the counterpart
Aligned == bilingual.aligner # None
Emitted ==
    [i \in DOMAIN bilingual.segments |->
       LET seg == bilingual.segments[i]
       IN  IF bilingual.aligner = "_generate_dual_srt"
             THEN [sequence |-> seg.idx, text_primary |-> seg.zh,
                   text_secondary |-> seg.en]
             ELSE [sequence |-> seg.sequence, text_primary |-> seg.english,
                   text_secondary |-> seg.chinese]]

\* C24: a track of segments with end_time > start_time and pairwise
\* distinct texts, aligned against itself, gives every output segment a
\* secondary text equal to its primary text.
AlignmentIdempotence ==
    ( Aligned /\ other_track = reference_track ) =>
        \A i \in DOMAIN Emitted :
            Emitted[i].text_secondary = Emitted[i].text_primary

\* C25: the aligner emits one segment per reference segment, in the order
\* of the reference track, numbered 1..N whatever the sequence numbers of
\* the reference segments, whether or not a counterpart was found.
OneSegmentPerReference ==
    Aligned =>
        /\ Len(Emitted) = Len(reference_track)
        /\ \A i \in DOMAIN Emitted :
              /\ Emitted[i].text_primary = reference_track[i].text
              /\ Emitted[i].sequence = i

\* C26: when several segments of the other track overlap a reference
\* segment, the counterpart is an overlapping segment whose start_time is
\* closest to the start_time of the reference segment, wherever it stands
\* in the other track.
ClosestStartWins ==
    Aligned =>
        \A i \in DOMAIN Emitted :
            LET ref == reference_track[i]
                overlapping ==
                  { j \in DOMAIN other_track :
                      /\ ref.start_time - sync_tolerance <= other_track[j].end_time
                      /\ other_track[j].start_time - sync_tolerance <= ref.end_time }
                diff(j) == Abs(other_track[j].start_time - ref.start_time)
                closest == { j \in overlapping :
                               \A k \in overlapping : diff(j) <= diff(k) }
            IN  Cardinality(overlapping) >= 2 =>
                  Emitted[i].text_secondary \in { other_track[j].text : j \in closest }

\* C27: generate_bilingual_subtitles treats a reference segment and a
\* segment of the other track as overlapping exactly when
\* ref.start - tolerance <= other.end and other.start - tolerance <= ref.end;
\* the boundary is inclusive: a segment that starts exactly the tolerance
\* after the other one ends overlaps it, one that starts later does not.
OverlapIsInclusive ==
    bilingual.aligner = "generate_bilingual_subtitles" =>
        \A i \in DOMAIN Emitted :
            LET ref == reference_track[i]
                others == DOMAIN other_track
                overlaps(j) ==
                  /\ ref.start_time - sync_tolerance <= other_track[j].end_time
                  /\ other_track[j].start_time - sync_tolerance <= ref.end_time
                gap(j) ==
                  LET after == ref.start_time - other_track[j].end_time
                      before == other_track[j].start_time - ref.end_time
                  IN  IF after > before THEN after ELSE before
                matched == Emitted[i].text_secondary # ref.text
            IN  ( /\ other_track # reference_track
                  /\ \A j \in others : other_track[j].sequence # ref.sequence ) =>
                  /\ matched <=> \E j \in others : overlaps(j)
                  /\ \A j \in others :
                        Emitted[i].text_secondary = other_track[j].text => overlaps(j)
                  /\ ( \E j \in others : gap(j) = sync_tolerance ) => matched
                  /\ ( others # {} /\ \A j \in others : gap(j) > sync_tolerance )
                        => ~matched

StoredSegmentsAreProper ==
    LET cues == parse_vtt_file(vtt_file)
    IN  subtitle_segments # << >> =>
          /\ Len(subtitle_segments) = Len(cues)
          /\ \A i \in DOMAIN subtitle_segments :
                /\ subtitle_segments[i].end_time > subtitle_segments[i].start_time
                /\ subtitle_segments[i].start_time = cues[i].start
                /\ subtitle_segments[i].end_time =
                     IF cues[i].end <= cues[i].start
                       THEN cues[i].start + min_duration
                       ELSE cues[i].end

\* C30: create_task decides by the first check that applies, in the order
\* active row with the url (surrounding whitespace apart), identity lookup,
\* completed row with the title,
\* existing output file, new pending row: with an active row of the url the
\* table is left alone whatever the lookup would answer, and with a
\* completed row of the resolved title no row is synthesized for a file
\* that exists.
FirstCheckDecides ==
    \A url \in Urls, lookup \in LookupOutcomes :
        LET r == create_task(download_tasks, files, url, lookup)
            n == Len(download_tasks)
            active == { i \in Rows : strip(Row(i).url) = strip(url)
                                      /\ Row(i).status \in ActiveStatuses }
            done == { i \in Rows :
                        /\ Row(i).title = video_title(extract_video_id(url))
                        /\ Row(i).status = "completed" }
            on_disk == generate_filename_from_url(url) \in files
            appended(status) ==
                /\ Len(r.tasks) = n + 1
                /\ SubSeq(r.tasks, 1, n) = download_tasks
                /\ r.task_id = n + 1
                /\ r.tasks[n + 1].url = url
                /\ r.tasks[n + 1].status = status
        IN  IF active # {}
              THEN r.tasks = download_tasks /\ r.task_id \in active
            ELSE IF lookup # "info" THEN appended("error")
            ELSE IF done # {}
              THEN r.tasks = download_tasks /\ r.task_id \in done
            ELSE IF on_disk THEN appended("completed")
            ELSE appended("pending")

\* the stage that follows a stage of one pass of the pipeline
NextStage ==
    [ fetching |-> "importing", importing |-> "processing",
      processing |-> "finishing", finishing |-> "done" ]

\* C31: the title lookup of _download_task runs once per execution: a pass
\* of the retry loop that follows a backoff sleep leaves the lookup count
\* and the title alone and awaits download_video again (unless the store
\* refuses the progress write before it); download_video is awaited only at
\* the start of a pass, and from one stage the execution moves only to the
\* stage that follows it.
RetryReentersAtDownload ==
    [][ \A t \in TaskIds :
          LET p == pipeline[t]
              q == pipeline'[t]
              h == history[t]
              g == history'[t]
          IN  ( p.pc \in Suspended /\ q.pc # "scheduled" ) =>
                /\ g.lookups <= 1
                /\ g.attempts >= 1 => g.lookups = 1
                /\ ( p.pc = "sleeping" /\ g.attempts = h.attempts + 1 ) =>
                      /\ g.lookups = h.lookups
                      /\ download_tasks'[t].title = download_tasks[t].title
                      /\ q.pc = "fetching" \/ g.raised = "OperationalError"
                /\ ( q.pc = "fetching" /\ p.pc # "fetching" ) =>
                      g.attempts = h.attempts + 1
                /\ ( p.pc \in Working /\ q.pc \in Working /\ q.pc # p.pc ) =>
                      q.pc = NextStage[p.pc]
                /\ ( p.pc \in Working /\ q.pc \notin Working ) =>
                      q.pc \in {"done", "sleeping"}
      ]_vars

\* C31 witness: the second pass of the retry loop awaits download_video
\* after one title lookup
RedownloadingAfterBackoff ==
    \E t \in TaskIds :
        /\ pipeline[t].pc = "fetching"
        /\ history[t].attempts = 2
        /\ history[t].lookups = 1
        /\ Len(history[t].sleeps) = 1

\* C32: sync_timeline returns the segments it was given, as many and in the
\* same order; the start_time of segment i is the end_time of the returned
\* segment i-1 exactly when the two differ by at most the tolerance, and is
\* unchanged otherwise; every returned segment has end_time > start_time,
\* the end_time being start_time + 1 s when it was not after the start_time
\* and unchanged otherwise.
TimelineIsContinuous ==
    LET given == reference_track
        synced == bilingual.segments
    IN  bilingual.aligner = "sync_timeline" =>
          /\ Len(synced) = Len(given)
          /\ \A i \in DOMAIN synced :
                /\ synced[i].sequence = given[i].sequence
                /\ synced[i].text = given[i].text
                /\ synced[i].start_time =
                     IF i > 1 /\ Abs(given[i].start_time - synced[i - 1].end_time)
                                   <= sync_tolerance
                       THEN synced[i - 1].end_time
                       ELSE given[i].start_time
                /\ synced[i].end_time > synced[i].start_time
                /\ synced[i].end_time =
                     IF given[i].end_time <= synced[i].start_time
                       THEN synced[i].start_time + min_duration
                       ELSE given[i].end_time

\* C32 witness: the second segment starts within the tolerance of the
\* repaired end of the first, is moved onto it, and then ends before its
\* new start
SnappedOntoRepairedEnd ==
    /\ bilingual.aligner = "sync_timeline"
    /\ Len(reference_track) = 2
    /\ reference_track[1].end_time < reference_track[1].start_time
    /\ reference_track[2].start_time < reference_track[2].end_time
    /\ bilingual.segments[2].start_time # reference_track[2].start_time
    /\ bilingual.segments[2].start_time = bilingual.segments[1].end_time
    /\ bilingual.segments[2].end_time = bilingual.segments[2].start_time + min_duration

OneLivePipelinePerFile ==
    \A i, j \in DOMAIN download_tasks :
        ( /\ i # j
          /\ generate_filename_from_url(download_tasks[i].url)
               = generate_filename_from_url(download_tasks[j].url) ) =>
            ~ ( pipeline[i].pc \in Suspended /\ pipeline[j].pc \in Suspended )

RetryCountNeverDecreases ==
    [][ \A t \in DOMAIN download_tasks :
          LET row == download_tasks[t]
              after == download_tasks'[t]
          IN  /\ row.retry_count \in 0..max_retries
              /\ after.retry_count \in 0..max_retries
              /\ after.retry_count >= row.retry_count
              /\ ( pipeline'[t].pc = "scheduled" /\ pipeline[t].pc # "scheduled" ) =>
                    /\ pipeline'[t].retry_count = row.retry_count
                    /\ history'[t].start_retry = row.retry_count
              /\ pipeline'[t].pc \in Suspended \cup {"done"} =>
                    /\ pipeline'[t].retry_count
                         = history'[t].start_retry + Len(history'[t].sleeps)
                    /\ pipeline'[t].retry_count <= max_retries
      ]_vars

\* C36 witness: a task restored with one retry used has failed after the
\* one retry it had left
RecoveredTaskOutOfRetries ==
    \E t \in DOMAIN download_tasks :
        /\ restarts = 1
        /\ download_tasks[t].status = "error"
        /\ download_tasks[t].retry_count = max_retries
        /\ history[t].start_retry = 1
        /\ Len(history[t].sleeps) = max_retries - 1
        /\ history[t].raised = "OperationalError"

\* C37: an execution that holds a permit and goes to sleep for a backoff
\* leaves the number of free permits as it is: the
\* number of free permits rises only in a step in which an execution that
\* held one ends, and while max_concurrent executions sleep no permit is
\* free and no started task is admitted.
BackoffKeepsItsSlot ==
    [][ LET asleep == { t \in TaskIds : pipeline[t].pc = "sleeping" }
        IN  /\ \A t \in TaskIds :
                  ( /\ pipeline'[t].pc = "sleeping"
                    /\ pipeline[t].pc \in HoldsPermit
                    /\ history'[t] # history[t] ) => semaphore' = semaphore
            /\ semaphore' > semaphore =>
                  \E t \in TaskIds : /\ pipeline[t].pc \in HoldsPermit
                                     /\ pipeline'[t].pc = "done"
            /\ Cardinality(asleep) = max_concurrent =>
                  /\ semaphore = 0
                  /\ \A u \in TaskIds :
                        pipeline[u].pc \in {"scheduled", "wait_sem"}
                          => pipeline'[u].pc \notin HoldsPermit
      ]_vars

\* C37 witness: every permit is held by a sleeping execution and a started
\* task has run into the semaphore and waits
WaitingBehindBackoff ==
    /\ Cardinality({ t \in TaskIds : pipeline[t].pc = "sleeping" }) = max_concurrent
    /\ semaphore = 0
    /\ \E u \in Rows :
          pipeline[u].pc = "wait_sem" /\ Row(u).status = "downloading"

\* C38: every row in a terminal status has completed_at set, whichever
\* operation wrote the status, and no pending or downloading row has it set
\* (terminal statuses being absorbing, such a row was never terminal).
TerminalHasCompletedAt ==
    \A i \in DOMAIN download_tasks :
        /\ download_tasks[i].status \in TerminalStatuses
              => download_tasks[i].completed_at
        /\ download_tasks[i].status \in ActiveStatuses
              => ~download_tasks[i].completed_at

====
